---------------------------- MODULE Spec2Model ----------------------------
(* A model of datamodel_code_generator/model/base.py: the Field Descriptor  *)
(* (DataModelField), its type-hint composition (_get_type_hint under the    *)
(* optional decorator), and the Model builder (DataModel.__init__) as       *)
(* instantiated by pydantic/custom_root_type.py (CustomRootType).           *)
(*                                                                          *)
(* A Python str is a sequence of characters, each character a one-token     *)
(* TLA+ string; the two non-ASCII characters of the name alphabet are       *)
(* written by their code points.  Python lists are sequences.  Objects that *)
(* the code mutates in place and that several owners may hold (the Field    *)
(* Descriptors, the imports lists) live in heaps addressed by index.        *)
(* The template a Model loads and its decorators carry no state that the    *)
(* operations below read or change, and are left out.                       *)
EXTENDS Naturals, Sequences, FiniteSets

VARIABLES
    fields,              \* heap of constructed DataModelField objects
    lists,               \* heap of List[Import] objects held by callers and Models
    models,              \* the constructed DataModel objects, in construction order
    extra_template_data, \* the caller's shared DefaultDict[str, Dict]
    ret,                 \* what the last direct _get_type_hint() call returned
    last                 \* the last operation and the arguments it was given

vars == <<fields, lists, models, extra_template_data, ret, last>>

\* ------------------------------------------------------------------------
(* Bounds                                                                   *)

MaxAtoms == 2

MaxImports == 4

MaxNameLen == 2

MaxFields == 2

MaxModels == 2

\* ------------------------------------------------------------------------
(* Strings                                                                  *)

\* Python's None: a value no str equals (its one element is no character).
None == <<"<None>">>

\* None where a list of str is expected.
NoList == <<None>>

EmptyStr == <<>>

RECURSIVE Join(_, _)
\* sep.join(strs)
Join(strs, sep) ==
    IF strs = <<>> THEN EmptyStr
    ELSE IF Len(strs) = 1 THEN strs[1]
    ELSE strs[1] \o sep \o Join(Tail(strs), sep)

RECURSIVE Flatten(_)
\* the concatenation of a sequence of lists (successive list.extend calls)
Flatten(ls) ==
    IF ls = <<>> THEN <<>> ELSE ls[1] \o Flatten(Tail(ls))

\* s[i:i+len(p)] == p, i counted from 1
MatchAt(s, p, i) ==
    /\ i + Len(p) - 1 <= Len(s)
    /\ \A k \in 1..Len(p) : s[i + k - 1] = p[k]

\* s.startswith(p)
StartsWith(s, p) == MatchAt(s, p, 1)

\* p in s
Contains(s, p) == \E i \in 1..(Len(s) + 1) : MatchAt(s, p, i)

RECURSIVE FindFrom(_, _, _)
\* the least index >= i at which p occurs in s; 0 when there is none
FindFrom(s, p, i) ==
    IF i + Len(p) - 1 > Len(s) THEN 0
    ELSE IF MatchAt(s, p, i) THEN i
    ELSE FindFrom(s, p, i + 1)

\* s.replace(p, '', 1): the leftmost occurrence of p removed, if there is one
ReplaceFirst(s, p) ==
    LET i == FindFrom(s, p, 1)
    IN  IF i = 0 THEN s
        ELSE SubSeq(s, 1, i - 1) \o SubSeq(s, i + Len(p), Len(s))

RECURSIVE RFind(_, _, _)
\* the greatest index <= i at which character c occurs in s; 0 when none
RFind(s, c, i) ==
    IF i = 0 THEN 0
    ELSE IF s[i] = c THEN i
    ELSE RFind(s, c, i - 1)

\* s.rsplit('.', 1): <<head, tail>> around the last '.', or <<s>> without one
RSplitDot(s) ==
    LET i == RFind(s, ".", Len(s))
        head == SubSeq(s, 1, i - 1)
        tail == SubSeq(s, i + 1, Len(s))
    IN  IF i = 0 THEN <<s>> ELSE <<head, tail>>

\* ------------------------------------------------------------------------
(* Constants of the program                                                 *)

UNION_ == <<"U", "n", "i", "o", "n">>

OPTIONAL == <<"O", "p", "t", "i", "o", "n", "a", "l">>

LIST == <<"L", "i", "s", "t">>

TYPING == <<"t", "y", "p", "i", "n", "g">>

\* Import(from_=..., import_=...): a value compared field by field
Import(from, name) == [from_ |-> from, import_ |-> name]

IMPORT_LIST == Import(TYPING, LIST)

IMPORT_UNION == Import(TYPING, UNION_)

IMPORT_OPTIONAL == Import(TYPING, OPTIONAL)

\* Import.from_full_path: module = the text before the last '.', symbol = the rest
from_full_path(full_path) ==
    LET parts == RSplitDot(full_path)
    IN  IF Len(parts) = 1 THEN Import(EmptyStr, parts[1])
        ELSE Import(parts[1], parts[2])

\* ------------------------------------------------------------------------
(* DataModelField                                                           *)

\* re.sub(r'\W', '_', name) on a str pattern: \w is Unicode-aware, it matches
\* [a-zA-Z0-9_] and every character str.isalnum() accepts.
AsciiWordChars ==
    { "a", "b", "c", "d", "e", "f", "g", "h", "i", "j", "k", "l", "m",
      "n", "o", "p", "q", "r", "s", "t", "u", "v", "w", "x", "y", "z",
      "A", "B", "C", "D", "E", "F", "G", "H", "I", "J", "K", "L", "M",
      "N", "O", "P", "Q", "R", "S", "T", "U", "V", "W", "X", "Y", "Z",
      "0", "1", "2", "3", "4", "5", "6", "7", "8", "9", "_" }

UnicodeAlnumChars == {"U+00E9", "U+0663"}

validate_name_ascii(name) ==
    [i \in 1..Len(name) |-> IF name[i] \in AsciiWordChars THEN name[i] ELSE "_"]

validate_name(name) ==
    [i \in 1..Len(name) |->
        IF name[i] \in AsciiWordChars \cup UnicodeAlnumChars THEN name[i] ELSE "_"]

\* A call's result together with self.imports as the call leaves it.
Result(hint, imports) == [ret |-> hint, imports |-> imports]

get_type_hint_body_by_count(data_types, is_list, is_union, imports) ==
    LET type_hint == Join([i \in 1..Len(data_types) |-> data_types[i].type_hint],
                          <<",", " ">>)
    IN  IF Len(data_types) = 0
        THEN IF is_list THEN Result(LIST, Append(imports, IMPORT_LIST))
             ELSE Result(EmptyStr, imports)
        ELSE IF Len(data_types) = 1
        THEN IF is_list
             THEN Result(LIST \o <<"[">> \o type_hint \o <<"]">>,
                         Append(imports, IMPORT_LIST))
             ELSE Result(type_hint, imports)
        ELSE IF is_list
        THEN IF is_union
             THEN Result(LIST \o <<"[">> \o UNION_ \o <<"[">> \o type_hint \o <<"]", "]">>,
                         Append(Append(imports, IMPORT_LIST), IMPORT_UNION))
             ELSE Result(LIST \o <<"[">> \o type_hint \o <<"]">>,
                         Append(imports, IMPORT_LIST))
        ELSE Result(UNION_ \o <<"[">> \o type_hint \o <<"]">>,
                    Append(imports, IMPORT_UNION))

\* The undecorated body of _get_type_hint.
get_type_hint_body(data_types, is_list, is_union, imports) ==
    LET type_hint == Join([i \in 1..Len(data_types) |-> data_types[i].type_hint],
                          <<",", " ">>)
    IN  IF type_hint = EmptyStr
        THEN IF is_list THEN Result(LIST, Append(imports, IMPORT_LIST))
             ELSE Result(EmptyStr, imports)
        ELSE IF Len(data_types) = 1
        THEN IF is_list
             THEN Result(LIST \o <<"[">> \o type_hint \o <<"]">>,
                         Append(imports, IMPORT_LIST))
             ELSE Result(type_hint, imports)
        ELSE IF is_list
        THEN IF is_union
             THEN Result(LIST \o <<"[">> \o UNION_ \o <<"[">> \o type_hint \o <<"]", "]">>,
                         Append(Append(imports, IMPORT_LIST), IMPORT_UNION))
             ELSE Result(LIST \o <<"[">> \o type_hint \o <<"]">>,
                         Append(imports, IMPORT_LIST))
        ELSE Result(UNION_ \o <<"[">> \o type_hint \o <<"]">>,
                    Append(imports, IMPORT_UNION))

optional_always_brackets(required, r) ==
    IF required THEN r
    ELSE Result(OPTIONAL \o <<"[">> \o r.ret \o <<"]">>,
                Append(r.imports, IMPORT_OPTIONAL))

\* The decorator: inner(self) applied to what func(self) returned.
optional(required, r) ==
    IF required THEN r
    ELSE IF r.ret = None \/ r.ret = EmptyStr
         THEN Result(OPTIONAL, Append(r.imports, IMPORT_OPTIONAL))
         ELSE Result(OPTIONAL \o <<"[">> \o r.ret \o <<"]">>,
                     Append(r.imports, IMPORT_OPTIONAL))

\* self._get_type_hint() on a descriptor f
get_type_hint(f) ==
    optional(f.required,
             get_type_hint_body(f.data_types, f.is_list, f.is_union, f.imports))

\* DataModelField(**values): pydantic gives every instance its own copy of the
\* [] defaults, runs validate_name on a supplied name, then __init__ goes on.
DataModelField(name, alias, required, data_types, is_list, is_union) ==
    LET f0 == [name             |-> IF name = None THEN None ELSE validate_name(name),
               alias            |-> IF (alias = None \/ alias = EmptyStr) /\ name # None
                                    THEN name ELSE alias,
               required         |-> required,
               data_types       |-> data_types,
               is_list          |-> is_list,
               is_union         |-> is_union,
               imports          |-> Flatten([i \in 1..Len(data_types) |->
                                                data_types[i].imports_]),
               type_hint        |-> None,
               unresolved_types |-> Flatten([i \in 1..Len(data_types) |->
                                                data_types[i].unresolved_types])]
        r == get_type_hint(f0)
    IN  [f0 EXCEPT !.imports = r.imports, !.type_hint = r.ret]

\* ------------------------------------------------------------------------
(* Inputs of the field operations                                           *)

\* DataType(type_hint=..., imports_=..., unresolved_types=...)
DataType(hint, imports, unresolved) ==
    [type_hint |-> hint, imports_ |-> imports, unresolved_types |-> unresolved]

STR == <<"s", "t", "r">>

INT == <<"i", "n", "t">>

ANY == <<"A", "n", "y">>

FieldAtoms ==
    { DataType(EmptyStr, <<>>, <<>>),
      DataType(STR, <<>>, <<>>),
      DataType(INT, <<>>, <<>>),
      DataType(ANY, <<Import(TYPING, ANY)>>, <<>>),
      DataType(LIST \o <<"[">> \o INT \o <<"]">>, <<IMPORT_LIST>>, <<>>) }

FieldAtomSeqs == UNION {[1..n -> FieldAtoms] : n \in 0..MaxAtoms}

NameChars == {"a", "1", "_", "-", " ", "U+00E9", "U+0663"}

FieldNames == UNION {[1..n -> NameChars] : n \in 0..MaxNameLen}

\* ------------------------------------------------------------------------
(* DataModel, as the component CustomRootType                               *)

BASE_CLASS ==
    <<"p", "y", "d", "a", "n", "t", "i", "c", ".",
      "B", "a", "s", "e", "M", "o", "d", "e", "l">>

Range(s) == {s[i] : i \in 1..Len(s)}

\* x or []: None and the empty list are falsy
OrList(x, default) == IF x = NoList \/ x = <<>> THEN default ELSE x

\* x or BASE_CLASS: None and the empty str are falsy
OrStr(x, default) == IF x = None \/ x = EmptyStr THEN default ELSE x

NotEmpty(b) == b # EmptyStr

NotDefault(r) == r # BASE_CLASS

\* [base_class for base_class in base_classes or [] if base_class]
given_base_classes(base_classes) == SelectSeq(OrList(base_classes, <<>>), NotEmpty)

seed_reference_classes_keep_default(base_classes) == base_classes

\* [r for r in base_classes if r != self.BASE_CLASS] if base_classes else []
seed_reference_classes(base_classes) ==
    IF base_classes # <<>> THEN SelectSeq(base_classes, NotDefault) ELSE <<>>

\* self.base_class before the module prefix is looked at
joined_base_class(base_classes, custom_base_class) ==
    IF base_classes # <<>> THEN Join(base_classes, <<",", " ">>)
    ELSE LET parts == RSplitDot(OrStr(custom_base_class, BASE_CLASS))
         IN  parts[Len(parts)]

RECURSIVE ReplaceAll(_, _)
\* s.replace(p, ''): every occurrence of the non-empty p removed
ReplaceAll(s, p) ==
    IF Contains(s, p) THEN ReplaceAll(ReplaceFirst(s, p), p) ELSE s

strip_type_hint_everywhere(type_hint, prefix) ==
    IF type_hint # None /\ Contains(type_hint, prefix)
    THEN ReplaceAll(type_hint, prefix)
    ELSE type_hint

\* type_hint.replace(prefix, '', 1) under its guard
strip_type_hint(type_hint, prefix) ==
    IF type_hint # None /\ Contains(type_hint, prefix)
    THEN ReplaceFirst(type_hint, prefix)
    ELSE type_hint

RECURSIVE strip_fields(_, _, _)
\* for field in self.fields: ... field.type_hint = ...; the descriptors are
\* the caller's objects, changed in place
strip_fields(heap, ids, prefix) ==
    IF ids = <<>> THEN heap
    ELSE strip_fields(
             [heap EXCEPT ![ids[1]].type_hint =
                              strip_type_hint(heap[ids[1]].type_hint, prefix)],
             Tail(ids), prefix)

lookup_extra_get(mapping, name) ==
    [data    |-> IF name \in DOMAIN mapping THEN mapping[name] ELSE {},
     mapping |-> mapping]

\* extra_template_data[self.name] on a defaultdict(dict): a missing key is
\* inserted with dict() and that new entry returned
lookup_extra(mapping, name) ==
    IF name \in DOMAIN mapping
    THEN [data |-> mapping[name], mapping |-> mapping]
    ELSE [data    |-> {},
          mapping |-> [n \in DOMAIN mapping \cup {name} |->
                          IF n = name THEN {} ELSE mapping[n]]]

\* list(set): every element once, in an order the program does not fix
ListsOfSet(S) ==
    {s \in [1..Cardinality(S) -> S] : Range(s) = S}

\* DataModel.__init__ (through CustomRootType.__init__).  imports is 0 for
\* None, else the heap index of the list handed in; extra is "none" for None,
\* "shared" for the caller's mapping.
DataModel(name, ids, base_classes_arg, custom_base_class, extra, imports, auto_import, reference_classes_arg) ==
    LET aliased == imports # 0 /\ lists[imports] # <<>>
        lid == IF aliased THEN imports ELSE Len(lists) + 1
        lists0 == IF aliased THEN lists ELSE Append(lists, <<>>)
        base_classes == given_base_classes(base_classes_arg)
        refs0 == seed_reference_classes(base_classes)
                     \o OrList(reference_classes_arg, <<>>)
        full_path == OrStr(custom_base_class, BASE_CLASS)
        imports1 == IF base_classes = <<>> /\ auto_import /\ full_path # EmptyStr
                    THEN Append(lists0[lid], from_full_path(full_path))
                    ELSE lists0[lid]
        base0 == joined_base_class(base_classes, custom_base_class)
        dotted == "." \in Range(name)
        parts == RSplitDot(name)
        prefix == parts[1] \o <<".">>
        base1 == IF dotted /\ StartsWith(base0, prefix)
                 THEN ReplaceFirst(base0, prefix) ELSE base0
        heap1 == IF dotted THEN strip_fields(fields, ids, prefix) ELSE fields
        looked == IF extra = "shared" THEN lookup_extra(extra_template_data, name)
                  ELSE [data |-> {}, mapping |-> extra_template_data]
        unresolved == UNION {Range(heap1[ids[k]].unresolved_types) : k \in 1..Len(ids)}
        imports2 == IF auto_import
                    THEN imports1 \o Flatten([k \in 1..Len(ids) |-> heap1[ids[k]].imports])
                    ELSE imports1
    IN  /\ Len(models) < MaxModels
        /\ Len(imports2) <= MaxImports
        /\ \E reference_classes \in ListsOfSet(Range(refs0) \cup unresolved) :
              models' = Append(models,
                  [name                |-> name,
                   class_name          |-> parts[Len(parts)],
                   fields              |-> ids,
                   imports             |-> lid,
                   base_classes        |-> base_classes,
                   base_class          |-> base1,
                   reference_classes   |-> reference_classes,
                   extra_template_data |-> looked.data])
        /\ fields' = heap1
        /\ lists' = [lists0 EXCEPT ![lid] = imports2]
        /\ extra_template_data' = looked.mapping
        /\ last' = [op |-> "DataModel", name |-> name, fields |-> ids,
                    base_classes |-> base_classes_arg,
                    custom_base_class |-> custom_base_class,
                    extra |-> extra, imports |-> imports,
                    auto_import |-> auto_import,
                    reference_classes |-> reference_classes_arg]
        /\ UNCHANGED ret

\* ------------------------------------------------------------------------
(* Inputs of the model operations                                           *)

PKG_A == <<"p", "k", "g", ".", "A">>

PKG_B == <<"p", "k", "g", ".", "B">>

XPKG_T == <<"x", "p", "k", "g", ".", "T">>

PKG_BASE == <<"p", "k", "g", ".", "B", "a", "s", "e">>

PKG_WIDGET == <<"p", "k", "g", ".", "W", "i", "d", "g", "e", "t">>

WIDGET == <<"W", "i", "d", "g", "e", "t">>

\* references to classes of the module pkg, not yet defined
RefA == DataType(PKG_A, <<>>, <<PKG_A>>)

RefB == DataType(PKG_B, <<>>, <<PKG_B>>)

\* classes of the module pkg that are already defined
LocalA == DataType(PKG_A, <<>>, <<>>)

LocalB == DataType(PKG_B, <<>>, <<>>)

\* a type of another module whose qualifier ends in "pkg."
OtherT == DataType(XPKG_T, <<>>, <<>>)

\* The descriptors constructed so far, handed to a Model in order.
AllFields == [i \in 1..Len(fields) |-> i]

\* The caller's own imports list, which it may hand to any number of Models.
CallerImports == <<Import(TYPING, ANY)>>

\* ------------------------------------------------------------------------
(* Operations                                                               *)

Init ==
    /\ fields = <<>>
    /\ lists = <<CallerImports>>
    /\ models = <<>>
    /\ extra_template_data = [n \in {} |-> {}]
    /\ ret = None
    /\ last = [op |-> "none"]

\* One descriptor constructed from the given arguments.
NewField(name, alias, required, data_types, is_list, is_union) ==
    /\ fields' = Append(fields,
                        DataModelField(name, alias, required, data_types,
                                       is_list, is_union))
    /\ last' = [op |-> "DataModelField", name |-> name, alias |-> alias,
                required |-> required, data_types |-> data_types,
                is_list |-> is_list, is_union |-> is_union]
    /\ UNCHANGED <<lists, models, extra_template_data, ret>>

\* A descriptor composed from every flag and atom sequence, name not supplied.
ComposeField ==
    /\ fields = <<>>
    /\ \E data_types \in FieldAtomSeqs, required \in BOOLEAN,
          is_list \in BOOLEAN, is_union \in BOOLEAN :
          NewField(None, None, required, data_types, is_list, is_union)

\* A descriptor constructed with a name (and perhaps an alias), no atoms.
NameField ==
    /\ fields = <<>>
    /\ \E name \in FieldNames, alias \in {None, <<"i", "d">>} :
          NewField(name, alias, FALSE, <<>>, FALSE, FALSE)

\* f._get_type_hint() called again on a constructed descriptor.
CallGetTypeHint ==
    \E i \in 1..Len(fields) :
        /\ Len(fields[i].imports) < MaxImports
        /\ LET r == get_type_hint(fields[i])
           IN  /\ fields' = [fields EXCEPT ![i].imports = r.imports]
               /\ ret' = r.ret
        /\ last' = [op |-> "_get_type_hint", field |-> i]
        /\ UNCHANGED <<lists, models, extra_template_data>>

\* A descriptor whose atoms name classes not yet defined.
ReferenceField ==
    /\ Len(fields) < MaxFields
    /\ \E data_types \in {<<RefA>>, <<RefA, RefB>>} :
          NewField(None, None, TRUE, data_types, FALSE, FALSE)

\* A Model built from base classes, explicit references and descriptors.
BuildWithReferences ==
    \E base_classes \in {NoList, <<BASE_CLASS, PKG_A>>, <<EmptyStr>>},
       reference_classes \in {NoList, <<BASE_CLASS, PKG_A, PKG_A>>} :
       DataModel(WIDGET, AllFields, base_classes, None, "none", 0, TRUE,
                 reference_classes)

\* A descriptor whose hint names types qualified by a module.
ModuleField ==
    /\ Len(fields) < MaxFields
    /\ \E f \in {<<<<LocalA, LocalB>>, FALSE>>, <<<<OtherT>>, TRUE>>} :
          NewField(None, None, f[2], f[1], FALSE, FALSE)

\* A Model of the module pkg, or of no module, over descriptors and bases.
BuildInModule ==
    \E name \in {PKG_WIDGET, WIDGET},
       base_classes \in {<<PKG_BASE>>, <<PKG_A, PKG_B>>, <<XPKG_T>>} :
       DataModel(name, AllFields, base_classes, None, "none", 0, TRUE, NoList)

\* A Model handed one of the imports lists that exist, or none.
BuildWithImports ==
    \E imports \in 0..Len(lists), auto_import \in BOOLEAN,
       name \in {PKG_WIDGET, WIDGET} :
       DataModel(name, AllFields, NoList, None, "none", imports, auto_import, NoList)

\* The caller records template data for a model name in its mapping.
SetExtra ==
    \E name \in {PKG_WIDGET, WIDGET} :
        /\ name \notin DOMAIN extra_template_data
        /\ extra_template_data' =
               [n \in DOMAIN extra_template_data \cup {name} |->
                   IF n = name THEN {<<"config", name>>} ELSE extra_template_data[n]]
        /\ last' = [op |-> "caller"]
        /\ UNCHANGED <<fields, lists, models, ret>>

\* A Model built with or without the caller's mapping.
BuildWithExtra ==
    \E name \in {PKG_WIDGET, WIDGET}, extra \in {"none", "shared"},
       custom_base_class \in {None, PKG_BASE}, auto_import \in BOOLEAN :
       DataModel(name, <<>>, NoList, custom_base_class, extra, 0, auto_import, NoList)

\* ------------------------------------------------------------------------
(* Specifications                                                           *)

NextField == ComposeField \/ NameField \/ CallGetTypeHint

SpecField == Init /\ [][NextField]_vars

NextRefs == ReferenceField \/ BuildWithReferences

SpecRefs == Init /\ [][NextRefs]_vars

NextStrip == ModuleField \/ BuildInModule

SpecStrip == Init /\ [][NextStrip]_vars

NextShare == ModuleField \/ BuildWithImports

SpecShare == Init /\ [][NextShare]_vars

NextExtra == SetExtra \/ BuildWithExtra

SpecExtra == Init /\ [][NextExtra]_vars


\* ------------------------------------------------------------------------
(* Properties of the Field Descriptor                                       *)

\* The descriptor the last DataModelField(...) call constructed.
Constructed == last.op = "DataModelField"

NewestField == fields[Len(fields)]

Brackets(head, inner) == head \o <<"[">> \o inner \o <<"]">>

JoinedHints(data_types) ==
    Join([i \in 1..Len(data_types) |-> data_types[i].type_hint], <<",", " ">>)

AtomImports(data_types) ==
    Flatten([i \in 1..Len(data_types) |-> data_types[i].imports_])

\* What the composition added to the imports the atoms brought.
AddedImports(f) ==
    SubSeq(f.imports, Len(AtomImports(f.data_types)) + 1, Len(f.imports))

NoDuplicates(s) == \A i, j \in 1..Len(s) : s[i] = s[j] => i = j

\* The hint of a required field, by number of atoms; a lone atom with the
\* empty hint counts as no atom when emptyIsAbsent.
HintByAtomCount(data_types, is_list, is_union, emptyIsAbsent) ==
    LET n == Len(data_types)
        J == JoinedHints(data_types)
    IN  IF n = 0 \/ (emptyIsAbsent /\ n = 1 /\ J = EmptyStr)
        THEN IF is_list THEN LIST ELSE EmptyStr
        ELSE IF n = 1
        THEN IF is_list THEN Brackets(LIST, J) ELSE J
        ELSE IF is_list /\ is_union THEN Brackets(LIST, Brackets(UNION_, J))
        ELSE IF is_list THEN Brackets(LIST, J)
        ELSE Brackets(UNION_, J)

ImportsByFlags(f) ==
    /\ Range(AddedImports(f)) \subseteq {IMPORT_LIST, IMPORT_UNION}
    /\ IMPORT_LIST \in Range(AddedImports(f)) <=> f.is_list
    /\ IMPORT_UNION \in Range(AddedImports(f))
           <=> (Len(f.data_types) >= 2 /\ (f.is_union \/ ~f.is_list))
    /\ NoDuplicates(AddedImports(f))
    /\ (Len(f.data_types) = 1 /\ ~f.is_list) => f.imports = AtomImports(f.data_types)

\* C1 as stated: a required field's composed hint is 'List'/'' for zero atoms,
\* 'List[h]'/h for one atom of any hint h (the empty hint included), and
\* 'List[Union[J]]', 'List[J]' or 'Union[J]' for two or more; List and Union
\* are imported exactly when the composition wraps in them.
C1_HintByAtomCount ==
    (Constructed /\ last.required) =>
        /\ NewestField.type_hint =
               HintByAtomCount(last.data_types, last.is_list, last.is_union, FALSE)
        /\ ImportsByFlags(NewestField)

\* C1 amended: as C1, except that one atom whose hint is the empty string
\* composes like zero atoms: 'List' (never 'List[]') if is_repeated, else ''.
C1_HintByAtomCountEmptyAbsent ==
    (Constructed /\ last.required) =>
        /\ NewestField.type_hint =
               HintByAtomCount(last.data_types, last.is_list, last.is_union, TRUE)
        /\ ImportsByFlags(NewestField)

\* A required repeated field whose one atom has the empty hint has been composed.
C1_Witness ==
    /\ Constructed /\ last.required /\ last.is_list
    /\ Len(last.data_types) = 1
    /\ last.data_types[1].type_hint = EmptyStr
    /\ NewestField.type_hint = LIST
    /\ NewestField.imports = <<IMPORT_LIST>>

\* C2: optionality wraps last: a non-required field imports Optional and its
\* hint is bare 'Optional' when the composed hint is empty, 'Optional[<composed>]'
\* otherwise; a required field keeps the composed hint and imports unchanged.
C2_OptionalWrapsLast ==
    Constructed =>
        LET f == NewestField
            pre == get_type_hint_body(last.data_types, last.is_list, last.is_union,
                                      AtomImports(last.data_types))
        IN  /\ last.required => (f.type_hint = pre.ret /\ f.imports = pre.imports)
            /\ ~last.required =>
                  /\ f.imports = Append(pre.imports, IMPORT_OPTIONAL)
                  /\ f.type_hint = IF pre.ret = EmptyStr THEN OPTIONAL
                                   ELSE Brackets(OPTIONAL, pre.ret)
            /\ (/\ ~last.required /\ ~last.is_list
                /\ JoinedHints(last.data_types) = <<"s", "t", "r", ",", " ", "i", "n", "t">>)
                  => /\ f.type_hint =
                           <<"O", "p", "t", "i", "o", "n", "a", "l", "[",
                             "U", "n", "i", "o", "n", "[", "s", "t", "r", ",", " ",
                             "i", "n", "t", "]", "]">>
                     /\ {IMPORT_OPTIONAL, IMPORT_UNION} \subseteq Range(f.imports)

\* The non-required field over 'str' and 'int' has been composed.
C2_Witness ==
    /\ Constructed /\ ~last.required /\ ~last.is_list
    /\ Len(last.data_types) = 2
    /\ NewestField.type_hint = Brackets(OPTIONAL, Brackets(UNION_, STR \o <<",", " ">> \o INT))
    /\ NewestField.imports = <<IMPORT_UNION, IMPORT_OPTIONAL>>

\* C4: no imports collection, of a Field Descriptor or of a Model, holds two
\* structurally equal Import Records.
C4_ImportsDeduplicated ==
    /\ \A i \in 1..Len(fields) : NoDuplicates(fields[i].imports)
    /\ \A m \in 1..Len(models) : NoDuplicates(lists[models[m].imports])

\* C5: composing again on a constructed descriptor returns the hint it has and
\* leaves its imports as the first composition left them.
C5_RecomposeIsPure ==
    [][last'.op = "_get_type_hint" =>
          /\ ret' = fields[last'.field].type_hint
          /\ fields'[last'.field].imports = fields[last'.field].imports]_vars

Built == last.op = "DataModel"

NewestModel == models[Len(models)]

\* 'M.' for a name 'M.C': the name up to and including its last '.'
ModulePrefix(name) ==
    LET dot == CHOOSE i \in 1..Len(name) :
                   name[i] = "." /\ \A j \in (i + 1)..Len(name) : name[j] # "."
    IN  SubSeq(name, 1, dot)

Dotted(name) == "." \in Range(name)

\* C3: reference_classes is the union of the explicit references, the given
\* non-empty base classes other than the default base class, and the fields'
\* unresolved names, each name once; the default base class is excluded from
\* the base-class contribution only.
C3_ReferenceClasses ==
    Built =>
        LET m == NewestModel
            explicit == Range(OrList(last.reference_classes, <<>>))
            bases == {b \in Range(OrList(last.base_classes, <<>>)) :
                         b # EmptyStr /\ b # BASE_CLASS}
            unresolved == UNION {Range(fields[last.fields[k]].unresolved_types) :
                                    k \in 1..Len(last.fields)}
        IN  /\ Range(m.reference_classes) = explicit \cup bases \cup unresolved
            /\ NoDuplicates(m.reference_classes)

\* A Model with the default base class among its bases and two descriptors
\* with unresolved names has been built.
C3_Witness ==
    /\ Built
    /\ last.base_classes = <<BASE_CLASS, PKG_A>>
    /\ last.reference_classes = NoList
    /\ Len(last.fields) = 2
    /\ Range(NewestModel.reference_classes) = {PKG_A, PKG_B}
    /\ Len(NewestModel.reference_classes) = 2

\* p occurs in text at the start or right after a non-identifier character
BoundaryOccurrence(text, p) ==
    \E i \in 1..Len(text) :
        MatchAt(text, p, i) /\ (i = 1 \/ text[i - 1] \notin AsciiWordChars)

\* C7: after a Model named 'M.C' is constructed, no occurrence of 'M.' after a
\* boundary remains in its base-class expression or in a hint of its fields,
\* and 'M.' as the tail of a longer qualifier ('xM.T') is left intact.
C7_NoQualifierRemains ==
    (Built /\ Dotted(last.name)) =>
        LET m == NewestModel
            prefix == ModulePrefix(last.name)
        IN  /\ ~BoundaryOccurrence(m.base_class, prefix)
            /\ \A k \in 1..Len(m.fields) :
                  LET f == fields[m.fields[k]]
                  IN  /\ ~BoundaryOccurrence(f.type_hint, prefix)
                      /\ f.data_types = <<OtherT>> => f.type_hint = XPKG_T

\* after is before with its leftmost occurrence of p, and nothing else, removed
LeftmostRemoved(before, after, p) ==
    \E k \in 1..Len(before) :
        /\ MatchAt(before, p, k)
        /\ \A j \in 1..(k - 1) : ~MatchAt(before, p, j)
        /\ after = SubSeq(before, 1, k - 1) \o SubSeq(before, k + Len(p), Len(before))

\* C8: constructing a Model named 'M.C' removes 'M.' once from a base-class
\* expression that starts with it, and from each hint of its fields that
\* contains it only the leftmost occurrence; every other string, and every
\* string when the name has no '.', is unchanged.  'pkg.Widget' with the one
\* base class 'pkg.Base' resolves to 'Base'.
C8_PrefixStrippedOnce ==
    [][Len(models') = Len(models) + 1 =>
          LET m == models'[Len(models')]
              base0 == joined_base_class(m.base_classes, last'.custom_base_class)
              prefix == ModulePrefix(m.name)
          IN  /\ m.base_class =
                     IF Dotted(m.name) /\ StartsWith(base0, prefix)
                     THEN SubSeq(base0, Len(prefix) + 1, Len(base0))
                     ELSE base0
              /\ \A i \in 1..Len(fields) :
                    IF /\ Dotted(m.name) /\ i \in Range(m.fields)
                       /\ fields[i].type_hint # None
                       /\ Contains(fields[i].type_hint, prefix)
                    THEN LeftmostRemoved(fields[i].type_hint, fields'[i].type_hint, prefix)
                    ELSE fields'[i].type_hint = fields[i].type_hint
              /\ (m.name = PKG_WIDGET /\ m.base_classes = <<PKG_BASE>>)
                    => m.base_class = <<"B", "a", "s", "e">>]_vars

\* 'pkg.Widget' has been built on 'pkg.Base' and a hint naming pkg twice.
C8_Witness ==
    /\ Built
    /\ last.name = PKG_WIDGET
    /\ last.base_classes = <<PKG_BASE>>
    /\ NewestModel.base_class = <<"B", "a", "s", "e">>
    /\ \E k \in 1..Len(NewestModel.fields) :
          fields[NewestModel.fields[k]].type_hint =
              Brackets(OPTIONAL, Brackets(UNION_, <<"A", ",", " ">> \o PKG_B))

\* What a Model shows of itself: its imports, reference classes, base-class
\* expression and the hints of its fields.
Observable(m) ==
    [imports           |-> lists[models[m].imports],
     reference_classes |-> models[m].reference_classes,
     base_class        |-> models[m].base_class,
     hints             |-> [k \in 1..Len(models[m].fields) |->
                               fields[models[m].fields[k]].type_hint]]

\* C9: no step changes what an already constructed Model shows of itself.
C9_ModelsIndependent ==
    [][\A m \in 1..Len(models) : Observable(m)' = Observable(m)]_vars

===========================================================================
